---------------------------- MODULE Spec2Model ----------------------------
(***************************************************************************)
(* Voice-chat relay (frontend/backend/main.py): the text chunker           *)
(* split_text_for_murf, the in-memory session store CHAT_HISTORY with its  *)
(* history endpoints, and the chat pipeline agent_chat with its stage      *)
(* fallbacks.                                                              *)
(*                                                                         *)
(* A text is a sequence of one-character strings.                          *)
(***************************************************************************)
EXTENDS Integers, Sequences, FiniteSets, TLC

(***************************************************************************)
(* Bounds of the model.                                                    *)
(***************************************************************************)
\* longest text handed to the chunker under SpecChunk
MaxLen == 6
\* largest limit handed to the chunker under SpecChunk
MaxLimit == 4
\* chat requests accepted in one behaviour of Spec
MaxChats == 2
\* the limit agent_chat passes to the chunker (3000 in the source, line 317),
\* scaled down with the provider replies of LLMTexts
MurfLimit == 3
\* turns a session holds when a request records its user message under
\* SpecPrompt
MaxTurns == 5

(***************************************************************************)
(* Characters.  Python's str.strip() and the regex class \s agree on what  *)
(* whitespace is; the sentence-end class is [\.\?\!] (line 93).            *)
(***************************************************************************)
Chars == {"a", "b", ".", " ", "\n"}

IsSpace(c) == c \in {" ", "\n", "\t", "\r"}

IsEnd(c) == c \in {".", "?", "!"}

Texts == UNION {[1..n -> Chars] : n \in 0..MaxLen}

Min(a, b) == IF a <= b THEN a ELSE b

\* s[i:] of Python, i >= 0
DropFirst(s, i) == SubSeq(s, Min(i, Len(s)) + 1, Len(s))

\* s[:i] of Python, i >= 0
Take(s, i) == SubSeq(s, 1, Min(i, Len(s)))

RECURSIVE LStrip(_)
LStrip(s) == IF s # <<>> /\ IsSpace(Head(s)) THEN LStrip(Tail(s)) ELSE s

RECURSIVE RStrip(_)
RStrip(s) ==
    IF s # <<>> /\ IsSpace(s[Len(s)]) THEN RStrip(SubSeq(s, 1, Len(s) - 1)) ELSE s

\* str.strip()
Strip(s) == RStrip(LStrip(s))

\* the first index i at which \s+ matches with a sentence end right before it
\* (the lookbehind (?<=[\.\?\!])), 0 when there is none
FirstBoundary(s) ==
    LET hits == {i \in 2..Len(s) : IsEnd(s[i - 1]) /\ IsSpace(s[i])}
    IN  IF hits = {} THEN 0 ELSE CHOOSE i \in hits : \A j \in hits : i <= j

\* re.split(r"(?<=[\.\?\!])\s+", s): the pieces between the matches; a match
\* takes the whole run of whitespace
RECURSIVE ReSplit(_)
ReSplit(s) ==
    LET i == FirstBoundary(s)
    IN  IF i = 0 THEN <<s>>
        ELSE <<SubSeq(s, 1, i - 1)>> \o ReSplit(LStrip(DropFirst(s, i - 1)))

\* a hard slice one character too long
RECURSIVE HardSlice_TooLong(_, _, _)
HardSlice_TooLong(out, s, limit) ==
    IF Len(s) > limit
    THEN HardSlice_TooLong(Append(out, Take(s, limit + 1)), DropFirst(s, limit + 1), limit)
    ELSE [out |-> out, s |-> s]

\* a hard slice that loses what is left after the last full slice
RECURSIVE HardSlice_DropsRest(_, _, _)
HardSlice_DropsRest(out, s, limit) ==
    IF Len(s) > limit
    THEN HardSlice_DropsRest(Append(out, Take(s, limit)), DropFirst(s, limit), limit)
    ELSE [out |-> out, s |-> <<>>]

\* lines 100-102: while len(s) > limit: out.append(s[:limit]); s = s[limit:]
RECURSIVE HardSlice(_, _, _)
HardSlice(out, s, limit) ==
    IF Len(s) > limit
    THEN HardSlice(Append(out, Take(s, limit)), DropFirst(s, limit), limit)
    ELSE [out |-> out, s |-> s]

\* the loop body without "if cur: out.append(cur)"
PackStep_DropsCur(st, s, limit) ==
    IF Len(st.cur) + Len(s) + (IF st.cur # <<>> THEN 1 ELSE 0) <= limit
    THEN [out |-> st.out, cur |-> Strip(st.cur \o <<" ">> \o s)]
    ELSE [out |-> HardSlice(st.out, s, limit).out, cur |-> HardSlice(st.out, s, limit).s]

\* the loop body closing a chunk that the next sentence would fill exactly
PackStep_Strict(st, s, limit) ==
    IF Len(st.cur) + Len(s) + (IF st.cur # <<>> THEN 1 ELSE 0) < limit
    THEN [out |-> st.out, cur |-> Strip(st.cur \o <<" ">> \o s)]
    ELSE LET closed == IF st.cur # <<>> THEN Append(st.out, st.cur) ELSE st.out
             h == HardSlice(closed, s, limit)
         IN  [out |-> h.out, cur |-> h.s]

\* one iteration of the loop over the sentences, lines 95-103
PackStep(st, s, limit) ==
    IF Len(st.cur) + Len(s) + (IF st.cur # <<>> THEN 1 ELSE 0) <= limit
    THEN [out |-> st.out, cur |-> Strip(st.cur \o <<" ">> \o s)]
    ELSE LET closed == IF st.cur # <<>> THEN Append(st.out, st.cur) ELSE st.out
             h == HardSlice(closed, s, limit)
         IN  [out |-> h.out, cur |-> h.s]

RECURSIVE PackLoop(_, _, _)
PackLoop(st, sentences, limit) ==
    IF sentences = <<>> THEN st
    ELSE PackLoop(PackStep(st, Head(sentences), limit), Tail(sentences), limit)

\* the chunker without the strip of line 85
split_text_for_murf_NoStrip(t, limit) ==
    IF t = <<>> THEN << <<>> >>
    ELSE IF Len(t) <= limit THEN <<t>>
    ELSE LET st == PackLoop([out |-> <<>>, cur |-> <<>>], ReSplit(t), limit)
         IN  IF st.cur # <<>> THEN Append(st.out, st.cur) ELSE st.out

\* lines 84-106
split_text_for_murf(t, limit) ==
    LET stripped == Strip(t)
    IN  IF stripped = <<>> THEN << <<>> >>
        ELSE IF Len(stripped) <= limit THEN <<stripped>>
        ELSE LET st == PackLoop([out |-> <<>>, cur |-> <<>>], ReSplit(stripped), limit)
             IN  IF st.cur # <<>> THEN Append(st.out, st.cur) ELSE st.out

(***************************************************************************)
(* The requests and what the collaborators may answer.                     *)
(***************************************************************************)
\* session ids of the requests
Sessions == {"s1", "s2"}

\* chat requests that may be in the server at once
Reqs == {"r1", "r2"}

\* the uploaded audio: no bytes; bytes the decoder detects by itself; bytes it
\* decodes only as webm (line 261); bytes it cannot decode
Payloads == {"empty", "wav", "webm", "garbage"}

\* the fixed transcript of line 279, abbreviated
STT_FALLBACK == <<"(", "n", ")">>

\* the fixed reply of line 309, abbreviated; like the original it fits one chunk
LLM_FALLBACK == <<"s", "y">>

\* what transcript_obj.text may be (line 274): None or "", blank, a text
STTTexts == {<<>>, <<" ">>, <<"h", "i", " ">>}

\* what the model may return (line 304): "", blank, a reply of two sentences
\* that needs two chunks (the fixed reply of line 309 is the one-chunk case)
LLMTexts == {<<>>, <<" ">>, <<"a", ".", " ", "b", "c", "d", "e", " ">>}

\* no audio reference (line 315, line 173)
NoAudio == [kind |-> "none", content |-> <<>>]

NoResponse ==
    [status |-> 0, transcript |-> <<>>, llm_text |-> <<>>, audio_url |-> NoAudio]

\* no answer of get_history / of clear_history is on its way
NoHistResp == [session_id |-> "s1", messages |-> <<>>, served |-> FALSE]

\* found: pop returned a list, not the default None (line 227)
NoClearResp == [session_id |-> "s1", cleared |-> FALSE, found |-> FALSE]

\* a request slot before agent_chat is entered.  lst tells whether the list
\* looked up for an append is still the session's; stt, llm, tts and
\* appended are history variables: how each stage ended and the messages
\* the request has appended; so are stt_calls and llm_calls, the calls made
\* to the two providers, and murf_calls, the parts sent to the speech
\* synthesis provider, in the order of the calls
IdleReq ==
    [pc |-> "idle", session_id |-> "s1", raw |-> "empty", wav_bytes |-> "empty",
     transcript_text |-> <<>>, llm_text |-> <<>>, prompt |-> <<>>, parts |-> <<>>,
     segments |-> <<>>, audio_url |-> NoAudio, lst |-> "none",
     stt |-> "none", llm |-> "none", tts |-> "none", appended |-> <<>>,
     stt_calls |-> 0, llm_calls |-> 0, murf_calls |-> <<>>,
     response |-> NoResponse]

(***************************************************************************)
(* State.                                                                  *)
(***************************************************************************)
VARIABLES
    HAVE_PYDUB,          \* line 16-23: pydub could be imported
    ASSEMBLYAI_API_KEY,  \* line 38: the key is set
    GEMINI_API_KEY,      \* line 39: the key is set
    MURF_API_KEY,        \* line 40: the key is set
    CHAT_HISTORY,        \* line 79: session id -> list of messages
    req,                 \* the chat requests: position and locals of agent_chat
    hist_resp,           \* the last answer of get_history
    clear_resp,          \* the last answer of clear_history
    raced,               \* history variable, per session: a clear ran between a
                         \* request's two appends
    turns,               \* history variable, per session: chats answered since it
                         \* was last empty, -1 when a clear ran during a chat or a
                         \* chat failed after its appends
    text,                \* SpecChunk: the text handed to the chunker
    limit,               \* SpecChunk: the limit handed to the chunker
    chunks,              \* SpecChunk: what the chunker returned
    called               \* SpecChunk: the chunker has returned

envVars == <<HAVE_PYDUB, ASSEMBLYAI_API_KEY, GEMINI_API_KEY, MURF_API_KEY>>

chatVars == <<CHAT_HISTORY, req, hist_resp, clear_resp, raced, turns>>

chunkVars == <<text, limit, chunks, called>>

vars == <<envVars, chatVars, chunkVars>>

\* the store and the requests when the process has started
InitStore ==
    /\ CHAT_HISTORY = [s \in {} |-> <<>>]
    /\ req = [r \in Reqs |-> IdleReq]
    /\ hist_resp = NoHistResp
    /\ clear_resp = NoClearResp
    /\ raced = [s \in Sessions |-> FALSE]
    /\ turns = [s \in Sessions |-> 0]

(***************************************************************************)
(* SpecChunk: the chunker as a pure function of a text and a limit.        *)
(***************************************************************************)
InitChunk ==
    /\ text \in Texts
    /\ limit \in 1..MaxLimit
    /\ chunks = <<>>
    /\ called = FALSE
    /\ HAVE_PYDUB = TRUE
    /\ ASSEMBLYAI_API_KEY = TRUE
    /\ GEMINI_API_KEY = TRUE
    /\ MURF_API_KEY = TRUE
    /\ InitStore

SplitCall ==
    /\ ~called
    /\ chunks' = split_text_for_murf(text, limit)
    /\ called' = TRUE
    /\ UNCHANGED <<text, limit, envVars, chatVars>>

NextChunk == SplitCall

SpecChunk == InitChunk /\ [][NextChunk]_vars

(***************************************************************************)
(* Session store: CHAT_HISTORY is a defaultdict(list).                     *)
(***************************************************************************)
\* CHAT_HISTORY.get(session_id, []), line 223
HistoryGet(h, s) == IF s \in DOMAIN h THEN h[s] ELSE <<>>

\* CHAT_HISTORY[session_id]: a missing key is created with an empty list
HistoryTouch(h, s) == [x \in DOMAIN h \cup {s} |-> IF x \in DOMAIN h THEN h[x] ELSE <<>>]

\* CHAT_HISTORY.pop(session_id, None), line 227
HistoryPop(h, s) == [x \in DOMAIN h \ {s} |-> h[x]]

\* CHAT_HISTORY[session_id][-8:], line 292
HistoryWindow == 8

\* m[:n] instead of m[-n:]
LastN_FirstN(m, n) == SubSeq(m, 1, IF Len(m) > n THEN n ELSE Len(m))

LastN(m, n) == SubSeq(m, IF Len(m) > n THEN Len(m) - n + 1 ELSE 1, Len(m))

\* lines 293-296: one labelled line per message
ConvoLines(m) ==
    [i \in 1..Len(m) |->
        [who |-> IF m[i].role = "user" THEN "User" ELSE "Assistant",
         content |-> m[i].content]]

\* line 300: the last line of the prompt, "Assistant:" with nothing behind
AssistantCue == [who |-> "Assistant", content |-> <<>>]

(***************************************************************************)
(* agent_chat.  It is a coroutine whose only await is the read of the      *)
(* upload (line 250): from there to its return it runs on the event loop   *)
(* without yielding, so another chat request starts its line 251 only when *)
(* no chat request is in between.  get_history and clear_history are plain *)
(* functions, run by the server on worker threads, at any time.            *)
(***************************************************************************)
OnLoop(r) == req[r].pc \notin {"idle", "Receive", "done"}

LoopFree == \A q \in Reqs : ~OnLoop(q)

\* a request on session s has taken the list for its user message and has not
\* yet appended its assistant message
InWindow(s) ==
    \E r \in Reqs :
        /\ req[r].session_id = s
        /\ req[r].pc \in {"RecordUserAppend", "Generate", "RecordAssistantGet",
                          "RecordAssistantAppend"}

\* a chat request on session s is between line 251 and its return
Running(s) == \E r \in Reqs : req[r].session_id = s /\ OnLoop(r)

\* agent_chat has returned or raised: its locals are gone, the answer is left
Returned(q, response) ==
    [IdleReq EXCEPT !.pc = "done", !.session_id = q.session_id, !.raw = q.raw,
                    !.stt = q.stt, !.llm = q.llm, !.tts = q.tts,
                    !.appended = q.appended, !.response = response]

\* lines 349-351: the outermost handler answers an exception with 500
ServerError(q) == Returned(q, [NoResponse EXCEPT !.status = 500])

\* an answer of one of the three endpoints is on its way to its client; it
\* is sent before the next step of any request (sending changes nothing else)
Pending ==
    \/ \E r \in Reqs : req[r].pc = "done"
    \/ hist_resp.served
    \/ clear_resp.cleared

\* the server sends the answer; nothing of it stays in the process
Sent ==
    /\ Pending
    /\ req' = [r \in Reqs |-> IF req[r].pc = "done" THEN IdleReq ELSE req[r]]
    /\ hist_resp' = NoHistResp
    /\ clear_resp' = NoClearResp
    /\ UNCHANGED <<envVars, chunkVars, CHAT_HISTORY, raced, turns>>

\* the chat requests in the server plus the turns kept in the store: what
\* MaxChats bounds
Load ==
    LET msgs[S \in SUBSET Sessions] ==
            IF S = {} THEN 0
            ELSE LET s == CHOOSE x \in S : TRUE
                 IN  Len(HistoryGet(CHAT_HISTORY, s)) + msgs[S \ {s}]
    IN  Cardinality({r \in Reqs : req[r].pc # "idle"}) + (msgs[Sessions] + 1) \div 2

\* POST /agent/chat/{session_id}: the request enters agent_chat and awaits
\* the upload (line 250)
AgentChat(r, s) ==
    /\ ~Pending
    /\ req[r].pc = "idle"
    /\ Load < MaxChats
    /\ req' = [req EXCEPT ![r] = [IdleReq EXCEPT !.pc = "Receive", !.session_id = s]]
    /\ UNCHANGED <<envVars, chunkVars, CHAT_HISTORY, hist_resp, clear_resp, raced, turns>>

\* a receive that looks the session's list up before the payload is checked
Receive_Touch(r, payload) ==
    /\ ~Pending
    /\ req[r].pc = "Receive"
    /\ LoopFree
    /\ CHAT_HISTORY' = HistoryTouch(CHAT_HISTORY, req[r].session_id)
    /\ req' = [req EXCEPT ![r] =
                 IF payload = "empty"
                 THEN Returned([@ EXCEPT !.raw = payload],
                               [NoResponse EXCEPT !.status = 400])
                 ELSE [@ EXCEPT !.pc = "Normalize", !.raw = payload]]
    /\ UNCHANGED <<envVars, chunkVars, hist_resp, clear_resp, raced, turns>>

\* lines 250-252: no audio data is answered 400 (re-raised as is, line 347-348)
Receive(r, payload) ==
    /\ ~Pending
    /\ req[r].pc = "Receive"
    /\ LoopFree
    /\ req' = [req EXCEPT ![r] =
                 IF payload = "empty"
                 THEN Returned([@ EXCEPT !.raw = payload],
                               [NoResponse EXCEPT !.status = 400])
                 ELSE [@ EXCEPT !.pc = "Normalize", !.raw = payload]]
    /\ UNCHANGED <<envVars, chunkVars, CHAT_HISTORY, hist_resp, clear_resp,
                   raced, turns>>

\* lines 255-264: with pydub the audio is decoded (auto-detect, then as webm)
\* and exported as wav; the second decode's exception is not caught here.
\* Which payload it was is not read again: the model keeps that it was accepted
Normalize(r) ==
    /\ ~Pending
    /\ req[r].pc = "Normalize"
    /\ req' = [req EXCEPT ![r] =
                 IF ~HAVE_PYDUB
                 THEN [@ EXCEPT !.pc = "Transcribe", !.wav_bytes = "raw",
                                !.raw = "accepted"]
                 ELSE IF @.raw \in {"wav", "webm"}
                 THEN [@ EXCEPT !.pc = "Transcribe", !.wav_bytes = "wav16k",
                                !.raw = "accepted"]
                 ELSE ServerError(@)]
    /\ UNCHANGED <<envVars, chunkVars, CHAT_HISTORY, hist_resp, clear_resp,
                   raced, turns>>

\* what the provider call of lines 271-273 may do
STTOutcomes ==
    {[raises |-> TRUE, text |-> <<>>]} \cup {[raises |-> FALSE, text |-> t] : t \in STTTexts}

\* lines 267-279
Transcribe(r) ==
    /\ ~Pending
    /\ req[r].pc = "Transcribe"
    /\ \E o \in STTOutcomes :
          LET failed == \/ ~ASSEMBLYAI_API_KEY
                        \/ o.raises
                        \/ Strip(o.text) = <<>>
          IN  req' = [req EXCEPT ![r] =
                        [@ EXCEPT !.pc = "RecordUserGet",
                                  !.stt = IF failed THEN "failed" ELSE "ok",
                                  !.stt_calls =
                                      IF ASSEMBLYAI_API_KEY THEN @ + 1 ELSE @,
                                  !.transcript_text =
                                      IF failed THEN STT_FALLBACK ELSE Strip(o.text)]]
    /\ UNCHANGED <<envVars, chunkVars, CHAT_HISTORY, hist_resp, clear_resp,
                   raced, turns>>

\* CHAT_HISTORY[session_id] of lines 282 and 312: the list is looked up (and
\* created when missing) before the message is built and appended.  The
\* prompt is not read after line 303 and is dropped here
RecordGet(r, from, to) ==
    /\ ~Pending
    /\ req[r].pc = from
    /\ CHAT_HISTORY' = HistoryTouch(CHAT_HISTORY, req[r].session_id)
    /\ req' = [req EXCEPT ![r] = [@ EXCEPT !.pc = to, !.lst = "held", !.prompt = <<>>]]
    /\ UNCHANGED <<envVars, chunkVars, hist_resp, clear_resp, raced, turns>>

\* an append that never reaches the session's list
RecordAppend_Lost(r, from, to, message) ==
    /\ ~Pending
    /\ req[r].pc = from
    /\ req' = [req EXCEPT ![r] =
                 [@ EXCEPT !.pc = to, !.lst = "none",
                           !.appended = Append(@, message)]]
    /\ UNCHANGED <<envVars, chunkVars, CHAT_HISTORY, hist_resp, clear_resp, raced, turns>>

\* an append that replaces the list by the new message
RecordAppend_Replace(r, from, to, message) ==
    /\ ~Pending
    /\ req[r].pc = from
    /\ CHAT_HISTORY' =
          IF req[r].lst = "held"
          THEN [CHAT_HISTORY EXCEPT ![req[r].session_id] = <<message>>]
          ELSE CHAT_HISTORY
    /\ req' = [req EXCEPT ![r] =
                 [@ EXCEPT !.pc = to, !.lst = "none",
                           !.appended = Append(@, message)]]
    /\ UNCHANGED <<envVars, chunkVars, hist_resp, clear_resp, raced, turns>>

\* .append(message) of lines 282 and 312: on the list looked up, which a
\* clear_history in between has taken out of CHAT_HISTORY
RecordAppend(r, from, to, message) ==
    /\ ~Pending
    /\ req[r].pc = from
    /\ CHAT_HISTORY' =
          IF req[r].lst = "held"
          THEN [CHAT_HISTORY EXCEPT ![req[r].session_id] = Append(@, message)]
          ELSE CHAT_HISTORY
    /\ req' = [req EXCEPT ![r] =
                 [@ EXCEPT !.pc = to, !.lst = "none",
                           !.appended = Append(@, message)]]
    /\ UNCHANGED <<envVars, chunkVars, hist_resp, clear_resp, raced, turns>>

\* line 282
RecordUserGet(r) == RecordGet(r, "RecordUserGet", "RecordUserAppend")

RecordUserAppend(r) ==
    RecordAppend(r, "RecordUserAppend", "Generate",
                 [role |-> "user", content |-> req[r].transcript_text])

\* what the provider call of lines 303-304 may do
LLMOutcomes ==
    {[raises |-> TRUE, text |-> <<>>]} \cup {[raises |-> FALSE, text |-> t] : t \in LLMTexts}

\* lines 285-309; the prompt (here without its fixed first line) is built
\* only when the key is set
Generate(r) ==
    /\ ~Pending
    /\ req[r].pc = "Generate"
    /\ \E o \in LLMOutcomes :
          LET failed == \/ ~GEMINI_API_KEY
                        \/ o.raises
                        \/ Strip(o.text) = <<>>
              h == IF GEMINI_API_KEY
                   THEN HistoryTouch(CHAT_HISTORY, req[r].session_id)
                   ELSE CHAT_HISTORY
          IN  /\ CHAT_HISTORY' = h
              /\ req' = [req EXCEPT ![r] =
                           [@ EXCEPT !.pc = "RecordAssistantGet",
                                     !.llm = IF failed THEN "failed" ELSE "ok",
                                     !.llm_calls =
                                         IF GEMINI_API_KEY THEN @ + 1 ELSE @,
                                     !.prompt =
                                         IF GEMINI_API_KEY
                                         THEN Append(
                                                  ConvoLines(LastN(h[req[r].session_id],
                                                                   HistoryWindow)),
                                                  AssistantCue)
                                         ELSE <<>>,
                                     !.llm_text =
                                         IF failed THEN LLM_FALLBACK ELSE Strip(o.text)]]
    /\ UNCHANGED <<envVars, chunkVars, hist_resp, clear_resp, raced, turns>>

\* line 312
RecordAssistantGet(r) == RecordGet(r, "RecordAssistantGet", "RecordAssistantAppend")

\* line 312 with the assistant message tagged as a user message
RecordAssistantAppend_AsUser(r) ==
    RecordAppend(r, "RecordAssistantAppend", "Synthesize",
                 [role |-> "user", content |-> req[r].llm_text])

\* line 312 appending the transcript instead of the reply
RecordAssistantAppend_Transcript(r) ==
    RecordAppend(r, "RecordAssistantAppend", "Synthesize",
                 [role |-> "assistant", content |-> req[r].transcript_text])

RecordAssistantAppend(r) ==
    RecordAppend(r, "RecordAssistantAppend", "Synthesize",
                 [role |-> "assistant", content |-> req[r].llm_text])

\* lines 315-320: the reply is cut into parts
Synthesize(r) ==
    /\ ~Pending
    /\ req[r].pc = "Synthesize"
    /\ req' = [req EXCEPT ![r] =
                 [@ EXCEPT !.pc = IF HAVE_PYDUB THEN "StitchChunk" ELSE "MurfFirst",
                           !.parts = split_text_for_murf(req[r].llm_text, MurfLimit),
                           !.segments = <<>>]]
    /\ UNCHANGED <<envVars, chunkVars, CHAT_HISTORY, hist_resp, clear_resp,
                   raced, turns>>

\* murf_generate_url, lines 109-136: the key is missing, the status is not
\* 200, the answer holds no audio URL, or the URL is returned
MurfOutcomes == {"http_error", "no_url", "ok"}

\* download_mp3, lines 139-145
DownloadOutcomes == {"download_error", "ok"}

\* one turn of the loop that asks once more for a part whose call failed
StitchChunk_RetryOnce(r) ==
    /\ ~Pending
    /\ req[r].pc = "StitchChunk"
    /\ \E m \in MurfOutcomes, d \in DownloadOutcomes :
          LET p == req[r].parts[Len(req[r].segments) + 1]
              ok == MURF_API_KEY /\ m = "ok" /\ d = "ok"
              segs == Append(req[r].segments, p)
              calls == IF MURF_API_KEY THEN Append(req[r].murf_calls, p)
                       ELSE req[r].murf_calls
          IN  req' = [req EXCEPT ![r] =
                        IF ok
                        THEN [@ EXCEPT !.segments = segs, !.murf_calls = calls,
                                       !.pc = IF Len(segs) = Len(req[r].parts)
                                              THEN "StitchSave" ELSE "StitchChunk"]
                        ELSE [@ EXCEPT !.murf_calls = calls,
                                       !.pc = IF Len(calls) = Len(segs)
                                              THEN "StitchChunk" ELSE "Fallback"]]
    /\ UNCHANGED <<envVars, chunkVars, CHAT_HISTORY, hist_resp, clear_resp,
                   raced, turns>>

\* lines 323-325: one turn of the loop over the parts; murf_generate_url
\* posts to the provider when the key is set (lines 114-129)
StitchChunk(r) ==
    /\ ~Pending
    /\ req[r].pc = "StitchChunk"
    /\ \E m \in MurfOutcomes, d \in DownloadOutcomes :
          LET p == req[r].parts[Len(req[r].segments) + 1]
              ok == MURF_API_KEY /\ m = "ok" /\ d = "ok"
              segs == Append(req[r].segments, p)
              calls == IF MURF_API_KEY THEN Append(req[r].murf_calls, p)
                       ELSE req[r].murf_calls
          IN  req' = [req EXCEPT ![r] =
                        IF ok
                        THEN [@ EXCEPT !.segments = segs, !.murf_calls = calls,
                                       !.pc = IF Len(segs) = Len(req[r].parts)
                                              THEN "StitchSave" ELSE "StitchChunk"]
                        ELSE [@ EXCEPT !.murf_calls = calls, !.pc = "Fallback"]]
    /\ UNCHANGED <<envVars, chunkVars, CHAT_HISTORY, hist_resp, clear_resp,
                   raced, turns>>

\* save_audiosegment, lines 148-163: the export or the write may raise
SaveOutcomes == {"save_error", "ok"}

\* a stitch that saves the first segment only
StitchSave_FirstOnly(r) ==
    /\ ~Pending
    /\ req[r].pc = "StitchSave"
    /\ \E o \in SaveOutcomes \cup {"stitch_error"} :
          req' = [req EXCEPT ![r] =
                    IF o = "ok"
                    THEN [@ EXCEPT !.pc = "Respond", !.tts = "ok",
                                   !.audio_url = [kind |-> "static",
                                                  content |-> <<req[r].segments[1]>>]]
                    ELSE [@ EXCEPT !.pc = "Fallback"]]
    /\ UNCHANGED <<envVars, chunkVars, CHAT_HISTORY, hist_resp, clear_resp,
                   raced, turns>>

\* lines 327-331: the segments are joined in order and saved under /static
StitchSave(r) ==
    /\ ~Pending
    /\ req[r].pc = "StitchSave"
    /\ \E o \in SaveOutcomes \cup {"stitch_error"} :
          req' = [req EXCEPT ![r] =
                    IF o = "ok"
                    THEN [@ EXCEPT !.pc = "Respond", !.tts = "ok",
                                   !.audio_url = [kind |-> "static",
                                                  content |-> req[r].segments]]
                    ELSE [@ EXCEPT !.pc = "Fallback"]]
    /\ UNCHANGED <<envVars, chunkVars, CHAT_HISTORY, hist_resp, clear_resp,
                   raced, turns>>

\* line 334: without pydub the URL of the first part is the answer
MurfFirst(r) ==
    /\ ~Pending
    /\ req[r].pc = "MurfFirst"
    /\ \E m \in MurfOutcomes :
          LET calls == IF MURF_API_KEY THEN Append(req[r].murf_calls, req[r].parts[1])
                       ELSE req[r].murf_calls
          IN  req' = [req EXCEPT ![r] =
                        IF MURF_API_KEY /\ m = "ok"
                        THEN [@ EXCEPT !.pc = "Respond", !.tts = "ok",
                                       !.murf_calls = calls,
                                       !.audio_url = [kind |-> "remote",
                                                      content |-> <<req[r].parts[1]>>]]
                        ELSE [@ EXCEPT !.murf_calls = calls, !.pc = "Fallback"]]
    /\ UNCHANGED <<envVars, chunkVars, CHAT_HISTORY, hist_resp, clear_resp,
                   raced, turns>>

\* fallback_tone_mp3, lines 166-177: "" without pydub, else the tone is saved
\* with save_audiosegment
fallback_tone_mp3(q, o) ==
    IF ~HAVE_PYDUB
    THEN [q EXCEPT !.pc = "Respond", !.tts = "failed", !.audio_url = NoAudio]
    ELSE IF o = "ok"
    THEN [q EXCEPT !.pc = "Respond", !.tts = "failed",
                   !.audio_url = [kind |-> "tone", content |-> <<>>]]
    ELSE ServerError([q EXCEPT !.tts = "failed"])

\* lines 335-338: the handler of the synthesis stage; what fallback_tone_mp3
\* raises is raised inside the handler and reaches the outermost one
Fallback(r) ==
    /\ ~Pending
    /\ req[r].pc = "Fallback"
    /\ \E o \in SaveOutcomes :
          /\ req' = [req EXCEPT ![r] = fallback_tone_mp3(@, o)]
          /\ turns' = IF req'[r].pc = "done"
                      THEN [turns EXCEPT ![req[r].session_id] = -1]
                      ELSE turns
    /\ UNCHANGED <<envVars, chunkVars, CHAT_HISTORY, hist_resp, clear_resp,
                   raced>>

\* lines 340-345
Respond(r) ==
    /\ ~Pending
    /\ req[r].pc = "Respond"
    /\ req' = [req EXCEPT ![r] =
                 Returned(@, [status |-> 200,
                              transcript |-> req[r].transcript_text,
                              llm_text |-> req[r].llm_text,
                              audio_url |-> req[r].audio_url])]
    /\ turns' = [turns EXCEPT ![req[r].session_id] = IF @ >= 0 THEN @ + 1 ELSE @]
    /\ UNCHANGED <<envVars, chunkVars, CHAT_HISTORY, hist_resp, clear_resp,
                   raced>>

\* get_history reading CHAT_HISTORY[session_id], which creates the entry
get_history_Touch(s) ==
    /\ ~Pending
    /\ CHAT_HISTORY' = HistoryTouch(CHAT_HISTORY, s)
    /\ hist_resp' = [session_id |-> s, messages |-> HistoryGet(CHAT_HISTORY, s),
                     served |-> TRUE]
    /\ UNCHANGED <<envVars, chunkVars, req, clear_resp, raced, turns>>

\* GET /agent/history/{session_id}, lines 221-223
get_history(s) ==
    /\ ~Pending
    /\ hist_resp' = [session_id |-> s, messages |-> HistoryGet(CHAT_HISTORY, s),
                     served |-> TRUE]
    /\ UNCHANGED <<envVars, chunkVars, CHAT_HISTORY, req, clear_resp, raced,
                   turns>>

\* a clear that empties the whole store
clear_history_All(s) ==
    /\ ~Pending
    /\ CHAT_HISTORY' = [x \in {} |-> <<>>]
    /\ req' = [r \in Reqs |->
                 IF req[r].lst = "held" THEN [req[r] EXCEPT !.lst = "orphan"] ELSE req[r]]
    /\ clear_resp' = [session_id |-> s, cleared |-> TRUE,
                      found |-> s \in DOMAIN CHAT_HISTORY]
    /\ raced' = [x \in Sessions |-> InWindow(x)]
    /\ turns' = [x \in Sessions |-> IF Running(x) THEN -1 ELSE 0]
    /\ UNCHANGED <<envVars, chunkVars, hist_resp>>

\* DELETE /agent/history/{session_id}, lines 225-228; a list a request has
\* looked up and not yet appended to is no longer the session's
clear_history(s) ==
    /\ ~Pending
    /\ CHAT_HISTORY' = HistoryPop(CHAT_HISTORY, s)
    /\ req' = [r \in Reqs |->
                 IF req[r].session_id = s /\ req[r].lst = "held"
                 THEN [req[r] EXCEPT !.lst = "orphan"]
                 ELSE req[r]]
    /\ clear_resp' = [session_id |-> s, cleared |-> TRUE,
                      found |-> s \in DOMAIN CHAT_HISTORY]
    /\ raced' = [raced EXCEPT ![s] = InWindow(s)]
    /\ turns' = [turns EXCEPT ![s] = IF Running(s) THEN -1 ELSE 0]
    /\ UNCHANGED <<envVars, chunkVars, hist_resp>>

\* The process starts with or without pydub, and with its three keys set or
\* not.  Each key is read by its own stage only (lines 269, 287, 114) and a
\* missing key raises inside the stage's try like a provider error does, so
\* the environments with one or two keys set add no step to these two.
Init ==
    /\ HAVE_PYDUB \in BOOLEAN
    /\ ASSEMBLYAI_API_KEY \in BOOLEAN
    /\ GEMINI_API_KEY = ASSEMBLYAI_API_KEY
    /\ MURF_API_KEY = ASSEMBLYAI_API_KEY
    /\ InitStore
    /\ text = <<>>
    /\ limit = 1
    /\ chunks = <<>>
    /\ called = FALSE

Next ==
    \/ \E r \in Reqs, s \in Sessions : AgentChat(r, s)
    \/ \E r \in Reqs, payload \in Payloads : Receive(r, payload)
    \/ \E r \in Reqs : Normalize(r)
    \/ \E r \in Reqs : Transcribe(r)
    \/ \E r \in Reqs : RecordUserGet(r)
    \/ \E r \in Reqs : RecordUserAppend(r)
    \/ \E r \in Reqs : Generate(r)
    \/ \E r \in Reqs : RecordAssistantGet(r)
    \/ \E r \in Reqs : RecordAssistantAppend(r)
    \/ \E r \in Reqs : Synthesize(r)
    \/ \E r \in Reqs : StitchChunk(r)
    \/ \E r \in Reqs : StitchSave(r)
    \/ \E r \in Reqs : MurfFirst(r)
    \/ \E r \in Reqs : Fallback(r)
    \/ \E r \in Reqs : Respond(r)
    \/ \E s \in Sessions : get_history(s)
    \/ \E s \in Sessions : clear_history(s)
    \/ Sent

Spec == Init /\ [][Next]_vars

(***************************************************************************)
(* SpecPrompt: the recording of the user message and the language-model    *)
(* stage (lines 282-309) of a request on a session that holds up to        *)
(* MaxTurns earlier turns, with clear_history running at any time.         *)
(***************************************************************************)
\* the contents earlier turns have left: the transcripts and the replies
\* the two stages can produce
PastTurns ==
    {<<[role |-> "user", content |-> u], [role |-> "assistant", content |-> a]>> :
        u \in {STT_FALLBACK} \cup {Strip(x) : x \in STTTexts \ {<<>>, <<" ">>}},
        a \in {LLM_FALLBACK} \cup {Strip(x) : x \in LLMTexts \ {<<>>, <<" ">>}}}

\* the list of a session after n turns
RECURSIVE HistoriesOf(_)
HistoriesOf(n) ==
    IF n = 0 THEN {<<>>} ELSE {h \o x : h \in HistoriesOf(n - 1), x \in PastTurns}

\* a request on session s1 is past line 279; s1 holds the turns of earlier
\* requests, all answered
InitPrompt ==
    /\ HAVE_PYDUB = TRUE
    /\ ASSEMBLYAI_API_KEY \in BOOLEAN
    /\ GEMINI_API_KEY = ASSEMBLYAI_API_KEY
    /\ MURF_API_KEY = ASSEMBLYAI_API_KEY
    /\ \E n \in 0..MaxTurns :
          /\ \E m \in HistoriesOf(n) :
                CHAT_HISTORY = [s \in (IF n = 0 THEN {} ELSE {"s1"}) |-> m]
          /\ turns = [s \in Sessions |-> IF s = "s1" THEN n ELSE 0]
    /\ \E o \in STTOutcomes :
          LET failed == \/ ~ASSEMBLYAI_API_KEY
                        \/ o.raises
                        \/ Strip(o.text) = <<>>
          IN  req = [r \in Reqs |->
                       IF r = "r1"
                       THEN [IdleReq EXCEPT
                                !.pc = "RecordUserGet", !.session_id = "s1",
                                !.raw = "accepted", !.wav_bytes = "wav16k",
                                !.stt = IF failed THEN "failed" ELSE "ok",
                                !.stt_calls = IF ASSEMBLYAI_API_KEY THEN 1 ELSE 0,
                                !.transcript_text =
                                    IF failed THEN STT_FALLBACK ELSE Strip(o.text)]
                       ELSE IdleReq]
    /\ hist_resp = NoHistResp
    /\ clear_resp = NoClearResp
    /\ raced = [s \in Sessions |-> FALSE]
    /\ text = <<>>
    /\ limit = 1
    /\ chunks = <<>>
    /\ called = FALSE

NextPrompt ==
    \/ \E r \in Reqs : RecordUserGet(r)
    \/ \E r \in Reqs : RecordUserAppend(r)
    \/ \E r \in Reqs : Generate(r)
    \/ \E s \in Sessions : clear_history(s)
    \/ Sent

SpecPrompt == InitPrompt /\ [][NextPrompt]_vars

(***************************************************************************)
(* Claims about the chat pipeline and the session store (checked under     *)
(* Spec).                                                                  *)
(***************************************************************************)
Done(r) == req[r].pc = "done"

\* roles user, assistant, user, assistant, ... from the first message on
Alternates(m) ==
    \A i \in 1..Len(m) : m[i].role = (IF i % 2 = 1 THEN "user" ELSE "assistant")

\* the request is past line 312 and has not returned
PastAssistantAppend(r) ==
    req[r].pc \in {"Synthesize", "StitchChunk", "StitchSave", "MurfFirst", "Fallback",
                   "Respond"}

\* C1: every chat request whose audio is non-empty and is accepted by the
\* normalizer ends, whatever the stages and the local audio capability do,
\* in a successful ChatResult with non-empty transcript and llm_text; the
\* request fails as a whole only for an empty payload or a decode failure.
C1_AlwaysResponds ==
    \A r \in Reqs :
        Done(r) =>
            /\ req[r].raw = "accepted" =>
                  /\ req[r].response.status = 200
                  /\ req[r].response.transcript # <<>>
                  /\ req[r].response.llm_text # <<>>
            /\ req[r].response.status # 200 => req[r].raw \in {"empty", "garbage"}

\* C2 as stated: in every reachable state, concurrent chat and clear-history
\* requests included, each session's list starts with a user message and
\* never has two adjacent messages of the same role.
C2_StrictAlternation ==
    \A s \in DOMAIN CHAT_HISTORY : Alternates(CHAT_HISTORY[s])

\* C2 as amended: the alternation holds for every session on which no
\* clear-history ran between a chat request's lookup of the list for its
\* user message and the append of its assistant message (since the session
\* was last cleared outside such a window).
C2_AlternationUnlessClearRaced ==
    \A s \in DOMAIN CHAT_HISTORY : ~raced[s] => Alternates(CHAT_HISTORY[s])

\* C2 witness: two chat requests on one session were in the server together,
\* the first has left two messages and the second, served after it, has
\* appended its user message and not yet its assistant message.
C2_Witness ==
    \E s \in DOMAIN CHAT_HISTORY, r \in Reqs :
        /\ ~raced[s]
        /\ Len(CHAT_HISTORY[s]) = 3
        /\ req[r].session_id = s
        /\ req[r].pc = "Generate"
        /\ Alternates(CHAT_HISTORY[s])

\* C3: from an empty or cleared session, after n chat requests on it ran one
\* after another to Respond, get-history returns exactly 2n messages with
\* roles user, assistant, user, assistant, ...
C3_HistoryAfterTurns ==
    /\ \A s \in Sessions :
          (turns[s] >= 0 /\ ~Running(s)) =>
              /\ Len(HistoryGet(CHAT_HISTORY, s)) = 2 * turns[s]
              /\ Alternates(HistoryGet(CHAT_HISTORY, s))
    /\ (hist_resp.served /\ turns[hist_resp.session_id] >= 0
            /\ ~Running(hist_resp.session_id)) =>
              /\ Len(hist_resp.messages) = 2 * turns[hist_resp.session_id]
              /\ Alternates(hist_resp.messages)

\* C3 witness: get-history answers after two turns on its session with four
\* messages.
C3_Witness ==
    /\ hist_resp.served
    /\ turns[hist_resp.session_id] = 2
    /\ ~Running(hist_resp.session_id)
    /\ Len(hist_resp.messages) = 4

\* C4: when the transcription stage failed, the user message the request
\* appended is the fixed placeholder, the placeholder is the transcript of
\* the response, and the request ends in a successful response with
\* non-empty llm_text.
C4_TranscriptionFallback ==
    \A r \in Reqs :
        (Done(r) /\ req[r].stt = "failed") =>
            /\ Len(req[r].appended) >= 1
            /\ req[r].appended[1] = [role |-> "user", content |-> STT_FALLBACK]
            /\ req[r].response.status = 200
            /\ req[r].response.transcript = STT_FALLBACK
            /\ req[r].response.llm_text # <<>>

\* C5: when the language-model stage failed, the assistant message the
\* request appended is the fixed apology and so is the llm_text of the
\* response; in every request the llm_text returned is the content of the
\* assistant message the request appended, which is the last message of its
\* session's list while the request runs (unless the list was cleared).
C5_AssistantMessageIsReply ==
    \A r \in Reqs :
        /\ PastAssistantAppend(r) =>
              /\ req[r].llm = "failed" => req[r].llm_text = LLM_FALLBACK
              /\ req[r].appended[2] = [role |-> "assistant", content |-> req[r].llm_text]
              /\ LET m == HistoryGet(CHAT_HISTORY, req[r].session_id)
                 IN  m # <<>> => m[Len(m)] = req[r].appended[2]
        /\ (Done(r) /\ Len(req[r].appended) = 2) =>
              /\ req[r].appended[2].role = "assistant"
              /\ req[r].llm = "failed" => req[r].appended[2].content = LLM_FALLBACK
              /\ req[r].response.status = 200 =>
                    req[r].response.llm_text = req[r].appended[2].content

\* C5 witness: a request whose language-model stage failed has answered with
\* the apology, which is also the last message of its session.
C5_Witness ==
    \E r \in Reqs :
        /\ Done(r)
        /\ req[r].llm = "failed"
        /\ req[r].stt = "ok"
        /\ req[r].response.status = 200
        /\ req[r].response.llm_text = LLM_FALLBACK
        /\ req[r].session_id \in DOMAIN CHAT_HISTORY
        /\ LET m == CHAT_HISTORY[req[r].session_id]
           IN  Len(m) = 4 /\ m[4] = [role |-> "assistant", content |-> LLM_FALLBACK]

\* C6: when the synthesis stage failed, the response is still successful and
\* its audio_url is a generated tone file with the local audio capability,
\* and empty without it; a stitched file never holds fewer parts than the
\* reply has.
C6_SynthesisFallback ==
    \A r \in Reqs :
        /\ (Done(r) /\ req[r].tts = "failed") =>
              /\ req[r].response.status = 200
              /\ req[r].response.audio_url.kind = (IF HAVE_PYDUB THEN "tone" ELSE "none")
        /\ (req[r].pc = "Respond" /\ req[r].audio_url.kind = "static") =>
              req[r].audio_url.content = req[r].parts

\* C7: an empty payload and a payload that fails both decode attempts are
\* answered 400 and not re-wrapped by the outermost handler; every other
\* exception that escapes a stage is answered 500.
C7_FatalInputIs400 ==
    \A r \in Reqs :
        Done(r) =>
            /\ req[r].raw \in {"empty", "garbage"} => req[r].response.status = 400
            /\ (req[r].raw = "accepted" /\ req[r].response.status # 200) =>
                  req[r].response.status = 500

(***************************************************************************)
(* Claims about the chunker (checked under SpecChunk).                     *)
(***************************************************************************)
AllSpace(t) == \A i \in 1..Len(t) : IsSpace(t[i])

RECURSIVE Concat(_)
Concat(ss) == IF ss = <<>> THEN <<>> ELSE Head(ss) \o Concat(Tail(ss))

RECURSIVE NonSpace(_)
NonSpace(t) ==
    IF t = <<>> THEN <<>>
    ELSE IF IsSpace(Head(t)) THEN NonSpace(Tail(t))
    ELSE <<Head(t)>> \o NonSpace(Tail(t))

\* C8: for every text and every limit >= 1, every returned chunk has length
\* <= limit, and no returned chunk is empty unless the input is empty or
\* whitespace-only, in which case the result is exactly [""].
C8_ChunksWithinLimit ==
    called =>
        /\ \A i \in 1..Len(chunks) : Len(chunks[i]) <= limit
        /\ IF AllSpace(text)
           THEN chunks = << <<>> >>
           ELSE \A i \in 1..Len(chunks) : chunks[i] # <<>>

\* C8 witness: a text that is cut into three or more chunks, one of them a
\* hard slice of a sentence longer than the limit.
C8_Witness ==
    /\ called
    /\ limit = 2
    /\ Len(chunks) >= 3
    /\ \E i \in 1..Len(chunks) : Len(chunks[i]) = limit /\ ~IsEnd(chunks[i][limit])

\* C9 as stated: concatenating the returned chunks in order reproduces the
\* input (read here up to the trim of line 85) with no character dropped or
\* duplicated.
C9_ConcatReproducesInput == called => Concat(chunks) = Strip(text)

\* C9 as amended: concatenating the returned chunks in order reproduces the
\* non-whitespace characters of the input, in order, none dropped or
\* duplicated; whitespace is not preserved.
C9_ConcatKeepsNonSpace == called => NonSpace(Concat(chunks)) = NonSpace(text)

\* C9 witness: two sentences separated by two whitespace characters that end
\* up in different chunks, the separator being lost.
C9_Witness ==
    /\ called
    /\ Len(chunks) = 2
    /\ \E i \in 2..(Len(text) - 2) :
          /\ IsEnd(text[i - 1]) /\ IsSpace(text[i]) /\ IsSpace(text[i + 1])
          /\ chunks[1] = SubSeq(text, 1, i - 1)
          /\ chunks[2] = SubSeq(text, i + 2, Len(text))

\* C10: for every text whose length is <= limit the chunker returns exactly
\* one chunk, equal to the input with leading and trailing whitespace trimmed.
C10_ShortTextOneChunk ==
    (called /\ Len(text) <= limit) => chunks = <<Strip(text)>>

\* C10 witness: a text within the limit that has whitespace to trim on both
\* sides and something left after the trim.
C10_Witness ==
    /\ called
    /\ Len(text) <= limit
    /\ Len(text) >= 3
    /\ IsSpace(text[1]) /\ IsSpace(text[Len(text)])
    /\ chunks = <<SubSeq(text, 2, Len(text) - 1)>>
    /\ ~IsSpace(text[2])

\* the text has no sentence boundary: no end punctuation followed by whitespace
SingleSentence(t) == FirstBoundary(t) = 0

\* ceil(a / b)
CeilDiv(a, b) == (a + b - 1) \div b

\* the consecutive slices of t, each of limit characters, the last shorter
Slices(t, lim) ==
    [i \in 1..CeilDiv(Len(t), lim) |-> SubSeq(t, (i - 1) * lim + 1, Min(i * lim, Len(t)))]

\* C11: for a text that is a single sentence of trimmed length L > limit the
\* chunker returns ceil(L/limit) chunks, the consecutive slices of the text,
\* each of exactly limit characters except the last, which has
\* L - limit*(ceil(L/limit)-1) characters and is never empty; a sentence of
\* 10000 characters with limit 3000 gives lengths 3000, 3000, 3000, 1000
\* (computed here for 10 characters and limit 3, the same case in units of
\* 1000 characters).
C11_SingleSentenceSlices ==
    /\ (called /\ SingleSentence(Strip(text)) /\ Len(Strip(text)) > limit) =>
          LET t == Strip(text)
              n == CeilDiv(Len(t), limit)
          IN  /\ Len(chunks) = n
              /\ chunks = Slices(t, limit)
              /\ \A i \in 1..(n - 1) : Len(chunks[i]) = limit
              /\ Len(chunks[n]) = Len(t) - limit * (n - 1)
              /\ Len(chunks[n]) > 0
    /\ LET c == split_text_for_murf([i \in 1..10 |-> "a"], 3)
       IN  [i \in 1..Len(c) |-> Len(c[i])] = <<3, 3, 3, 1>>
    /\ CeilDiv(10000, 3000) = 4 /\ 10000 - 3000 * (CeilDiv(10000, 3000) - 1) = 1000

\* C11 witness: a single sentence whose trimmed length is a multiple of the
\* limit and has whitespace inside, cut into three full slices.
C11_Witness ==
    /\ called
    /\ SingleSentence(Strip(text))
    /\ Len(Strip(text)) = 3 * limit
    /\ \E i \in 1..Len(Strip(text)) : IsSpace(Strip(text)[i])
    /\ Len(chunks) = 3
    /\ Len(chunks[3]) = limit

(***************************************************************************)
(* Further claims about the session store and the pipeline (checked under  *)
(* Spec).                                                                  *)
(***************************************************************************)
\* a chat request on session s is in the server, from its arrival to the
\* sending of its answer
InFlight(s) == \E r \in Reqs : req[r].pc # "idle" /\ req[r].session_id = s

\* the step is an answer of get_history / of clear_history
GetStep == ~hist_resp.served /\ hist_resp'.served

ClearStep == ~clear_resp.cleared /\ clear_resp'.cleared

\* C12: get-history on an id with no messages returns an empty sequence and
\* creates no session entry; clear-history on any id, known or unknown,
\* answers cleared: true, leaves every other session untouched, and as long
\* as no chat request on that id is in the server the id has no messages, so
\* a get-history issued after the clear returns an empty sequence.
C12_StoreContract ==
    /\ [](hist_resp.served =>
            hist_resp.messages = HistoryGet(CHAT_HISTORY, hist_resp.session_id))
    /\ [][GetStep =>
            /\ CHAT_HISTORY' = CHAT_HISTORY
            /\ hist_resp'.messages = HistoryGet(CHAT_HISTORY, hist_resp'.session_id)]_vars
    /\ [][ClearStep =>
            LET s == clear_resp'.session_id
            IN  /\ clear_resp'.found = (s \in DOMAIN CHAT_HISTORY)
                /\ s \notin DOMAIN CHAT_HISTORY'
                /\ DOMAIN CHAT_HISTORY' = DOMAIN CHAT_HISTORY \ {s}
                /\ \A x \in DOMAIN CHAT_HISTORY' : CHAT_HISTORY'[x] = CHAT_HISTORY[x]]_vars
    /\ [][\A s \in Sessions :
            (HistoryGet(CHAT_HISTORY, s) = <<>> /\ ~InFlight(s)) =>
                HistoryGet(CHAT_HISTORY', s) = <<>>]_vars

\* C12 witness: clear-history has just answered for a session that was known,
\* with no chat request on it in the server, while the other session keeps
\* the two messages of its turn.
C12_Witness ==
    /\ clear_resp.cleared
    /\ clear_resp.found
    /\ ~InFlight(clear_resp.session_id)
    /\ HistoryGet(CHAT_HISTORY, clear_resp.session_id) = <<>>
    /\ \E x \in DOMAIN CHAT_HISTORY : Len(CHAT_HISTORY[x]) = 2

\* the stage of the request at a position of agent_chat: 1 Receive,
\* 2 Normalize, 3 Transcribe, 4 RecordUser, 5 Generate, 6 RecordAssistant,
\* 7 Synthesize, 8 Respond
Stage(pc) ==
    CASE pc = "idle" -> 0
      [] pc = "Receive" -> 1
      [] pc = "Normalize" -> 2
      [] pc = "Transcribe" -> 3
      [] pc \in {"RecordUserGet", "RecordUserAppend"} -> 4
      [] pc = "Generate" -> 5
      [] pc \in {"RecordAssistantGet", "RecordAssistantAppend"} -> 6
      [] pc \in {"Synthesize", "StitchChunk", "StitchSave", "MurfFirst", "Fallback"} -> 7
      [] pc = "Respond" -> 8
      [] pc = "done" -> 9

\* C13: within one chat request the stages occur in the order Receive,
\* Normalize, Transcribe, RecordUser, Generate, RecordAssistant, Synthesize,
\* Respond, each at most once and never back: every step of a request stays
\* in its stage or enters the next one, and a request ends either from
\* Respond or by a fatal-input error in Receive or Normalize, so that a
\* fallback skips no later stage; the user message is appended before the
\* language model is invoked and the assistant message before synthesis
\* starts.
C13_StageOrder ==
    /\ [](\A r \in Reqs :
            /\ Stage(req[r].pc) \in 1..4 => req[r].llm = "none"
            /\ Stage(req[r].pc) \in 1..6 => req[r].tts = "none" /\ req[r].parts = <<>>
            /\ Stage(req[r].pc) = 5 =>
                  Len(req[r].appended) = 1 /\ req[r].appended[1].role = "user"
            /\ Stage(req[r].pc) \in 7..8 =>
                  /\ Len(req[r].appended) = 2
                  /\ req[r].appended[1].role = "user"
                  /\ req[r].appended[2].role = "assistant")
    /\ [][\A r \in Reqs :
            req'[r].pc # req[r].pc =>
                IF req'[r].pc = "idle" THEN req[r].pc = "done"
                ELSE IF req'[r].pc = "done"
                THEN \/ req[r].pc = "Respond"
                     \/ req[r].pc \in {"Receive", "Normalize"} /\ req'[r].appended = <<>>
                ELSE \/ Stage(req'[r].pc) = Stage(req[r].pc) + 1
                     \/ Stage(req'[r].pc) = Stage(req[r].pc)]_vars

\* a is a prefix of b
IsPrefix(a, b) == Len(a) <= Len(b) /\ a = SubSeq(b, 1, Len(a))

\* C14: no external call is retried: within one chat request the
\* speech-to-text provider and the language-model provider are called at
\* most once each, the speech-synthesis provider at most once per chunk and
\* in chunk order; once a stage has failed, no further call is made to its
\* provider in the request, and in the stitching mode a failure on chunk k
\* means that the chunks after k are never requested.
C14_NoRetry ==
    \A r \in Reqs :
        /\ req[r].stt_calls <= 1
        /\ req[r].llm_calls <= 1
        /\ (req[r].stt = "ok" /\ ~Done(r)) => req[r].stt_calls = 1
        /\ (req[r].llm = "ok" /\ ~Done(r)) => req[r].llm_calls = 1
        /\ Stage(req[r].pc) \in 7..8 =>
              /\ IsPrefix(req[r].murf_calls, req[r].parts)
              /\ ~HAVE_PYDUB => Len(req[r].murf_calls) <= 1
              /\ (req[r].pc = "Fallback" \/ req[r].tts = "failed") =>
                    Len(req[r].murf_calls) <= Len(req[r].segments) + 1
              /\ req[r].pc = "StitchChunk" => req[r].murf_calls = req[r].segments

\* C14 witness: in the stitching mode, after one call each to the
\* speech-to-text and the language-model provider, the synthesis of the
\* second of three chunks has failed: the stage falls back, the first two
\* chunks were requested once each and the third never.
C14_Witness ==
    \E r \in Reqs :
        /\ HAVE_PYDUB
        /\ req[r].pc = "Fallback"
        /\ req[r].stt_calls = 1
        /\ req[r].llm_calls = 1
        /\ Len(req[r].parts) = 3
        /\ req[r].segments = <<req[r].parts[1]>>
        /\ req[r].murf_calls = <<req[r].parts[1], req[r].parts[2]>>

\* C15: when synthesis succeeds the audio reference depends on HAVE_PYDUB
\* only: with it the provider was called once for every chunk in chunk order,
\* the audio of all chunks is joined in that order into one file and a local
\* /static reference is returned; without it the provider was called for the
\* first chunk only and that chunk's remote URL is returned, whatever the
\* number of chunks.
C15_AudioReference ==
    \A r \in Reqs :
        /\ (req[r].pc = "Respond" /\ req[r].tts = "ok") =>
              IF HAVE_PYDUB
              THEN /\ req[r].murf_calls = req[r].parts
                   /\ req[r].audio_url = [kind |-> "static", content |-> req[r].parts]
              ELSE /\ req[r].murf_calls = <<req[r].parts[1]>>
                   /\ req[r].audio_url = [kind |-> "remote",
                                          content |-> <<req[r].parts[1]>>]
        /\ (Done(r) /\ req[r].tts = "ok") =>
              /\ req[r].response.status = 200
              /\ req[r].response.audio_url.kind =
                    (IF HAVE_PYDUB THEN "static" ELSE "remote")
              /\ Len(req[r].response.audio_url.content) =
                    (IF HAVE_PYDUB
                     THEN Len(split_text_for_murf(req[r].response.llm_text, MurfLimit))
                     ELSE 1)

\* C15 witness: with stitching, a reply of three chunks is about to be
\* answered with one local file holding the audio of the three chunks in
\* chunk order.
C15_Witness ==
    \E r \in Reqs :
        /\ HAVE_PYDUB
        /\ req[r].pc = "Respond"
        /\ req[r].tts = "ok"
        /\ Len(req[r].parts) = 3
        /\ req[r].audio_url.kind = "static"
        /\ req[r].audio_url.content = req[r].parts

\* the step is an answer of clear_history for session s
ClearStepOn(s) == ClearStep /\ clear_resp'.session_id = s

\* C16: session history is append-only between clears: in every step that
\* is not a clear-history on the session id, whatever the interleaving of the
\* requests, the session's previous message list is a prefix of its new one.
C16_AppendOnly ==
    [][\A s \in Sessions :
          ~ClearStepOn(s) =>
              IsPrefix(HistoryGet(CHAT_HISTORY, s), HistoryGet(CHAT_HISTORY', s))]_vars

\* C16 witness: a request has appended its two messages behind the two
\* messages an earlier request left in the session.
C16_Witness ==
    \E r \in Reqs :
        /\ req[r].pc = "Synthesize"
        /\ Len(req[r].appended) = 2
        /\ Len(HistoryGet(CHAT_HISTORY, req[r].session_id)) = 4
        /\ SubSeq(CHAT_HISTORY[req[r].session_id], 3, 4) = req[r].appended
        /\ turns[req[r].session_id] = 1

\* C19: sessions are isolated: a step changes the message list of a session
\* (or creates or removes its entry) only if it is a step of a chat request
\* on that session id or a clear-history on that session id.
C19_SessionsIsolated ==
    [][\A b \in Sessions :
          \/ /\ HistoryGet(CHAT_HISTORY', b) = HistoryGet(CHAT_HISTORY, b)
             /\ (b \in DOMAIN CHAT_HISTORY') = (b \in DOMAIN CHAT_HISTORY)
          \/ ClearStepOn(b)
          \/ \E r \in Reqs :
                /\ req[r].session_id = b
                /\ OnLoop(r)
                /\ req'[r] # req[r]
                /\ \A q \in Reqs \ {r} : req'[q] = req[q]]_vars

\* C19 witness: a clear-history has just emptied one session in which a chat
\* request is between its two appends, while the other session keeps its two
\* messages.
C19_Witness ==
    \E r \in Reqs, b \in DOMAIN CHAT_HISTORY :
        /\ clear_resp.cleared
        /\ clear_resp.found
        /\ clear_resp.session_id = req[r].session_id
        /\ req[r].pc = "Generate"
        /\ b # req[r].session_id
        /\ Len(CHAT_HISTORY[b]) = 2
        /\ turns[b] = 1

\* C20: a chat request aborted by a fatal-input error (empty payload, decode
\* failure) has appended no message and no step of it up to the abort
\* changes the store or creates an entry; every request that has appended a
\* user message has, when it ends, appended exactly one assistant message
\* after it, whatever the synthesis stage did.
C20_AbortLeavesStore ==
    /\ [](\A r \in Reqs :
            /\ Stage(req[r].pc) \in 1..3 => req[r].appended = <<>>
            /\ Done(r) =>
                  /\ req[r].raw \in {"empty", "garbage"} => req[r].appended = <<>>
                  /\ req[r].appended # <<>> =>
                        /\ Len(req[r].appended) = 2
                        /\ req[r].appended[1].role = "user"
                        /\ req[r].appended[2].role = "assistant")
    /\ [][\A r \in Reqs :
            (Stage(req[r].pc) \in 1..2 /\ req'[r] # req[r]) =>
                CHAT_HISTORY' = CHAT_HISTORY]_vars

\* C20 witness: a request whose audio could not be decoded has ended with no
\* message appended and no entry for its session, while the other session
\* holds the two messages of a completed turn.
C20_Witness ==
    \E r \in Reqs :
        /\ Done(r)
        /\ req[r].raw = "garbage"
        /\ req[r].appended = <<>>
        /\ req[r].session_id \notin DOMAIN CHAT_HISTORY
        /\ \E b \in DOMAIN CHAT_HISTORY : Len(CHAT_HISTORY[b]) = 2

(***************************************************************************)
(* Claim about the prompt (checked under SpecPrompt).                      *)
(***************************************************************************)
\* C17: when the language model is called, the prompt holds the last
\* min(8, k) messages of the session's list, k being its length at that
\* moment, in the list's order and each labelled by its role, then the
\* "Assistant:" cue, and nothing older; when no clear-history on the session
\* ran since the request looked up the list for its user message, the last
\* of those messages is the user message the request has just recorded, the
\* placeholder when transcription failed.
C17_PromptWindow ==
    [][\A r \in Reqs :
          (req[r].pc = "Generate" /\ req'[r].llm_calls = req[r].llm_calls + 1) =>
              LET s == req[r].session_id
                  m == HistoryGet(CHAT_HISTORY, s)
                  k == Len(m)
                  n == IF k < 8 THEN k ELSE 8
                  p == req'[r].prompt
              IN  /\ Len(p) = n + 1
                  /\ p[n + 1] = [who |-> "Assistant", content |-> <<>>]
                  /\ \A i \in 1..n :
                        /\ p[i].content = m[k - n + i].content
                        /\ p[i].who = (IF m[k - n + i].role = "user"
                                       THEN "User" ELSE "Assistant")
                  /\ ~raced[s] =>
                        /\ n >= 1
                        /\ p[n] = [who |-> "User", content |-> req[r].transcript_text]
                        /\ m[k] = req[r].appended[1]
                        /\ req[r].stt = "failed" => p[n].content = STT_FALLBACK]_vars

\* C17 witness: the language model was called for a request whose
\* transcription failed, on a session of eleven messages: the prompt holds the
\* cue behind eight messages, the fourth to the eleventh of the list, the
\* last being the placeholder.
C17_Witness ==
    \E r \in Reqs :
        /\ req[r].pc = "RecordAssistantGet"
        /\ req[r].llm_calls = 1
        /\ req[r].stt = "failed"
        /\ ~raced[req[r].session_id]
        /\ Len(HistoryGet(CHAT_HISTORY, req[r].session_id)) = 11
        /\ Len(req[r].prompt) = 9
        /\ req[r].prompt[1].content = CHAT_HISTORY[req[r].session_id][4].content
        /\ req[r].prompt[8] = [who |-> "User", content |-> STT_FALLBACK]

(***************************************************************************)
(* Further claim about the chunker (checked under SpecChunk).              *)
(***************************************************************************)
\* the non-whitespace characters in the first i elements of ss
CumNonSpace(ss, i) == Len(NonSpace(Concat(SubSeq(ss, 1, i))))

\* "Hi there. How are you? I am fine!"
ExampleText ==
    <<"H", "i", " ", "t", "h", "e", "r", "e", ".", " ", "H", "o", "w", " ", "a", "r", "e">> \o
    <<" ", "y", "o", "u", "?", " ", "I", " ", "a", "m", " ", "f", "i", "n", "e", "!">>

\* what the chunker returns for the example with limit 10
ExampleChunks == split_text_for_murf(ExampleText, 10)

\* C18: when the trimmed text is longer than limit, the sentences are packed
\* greedily and in order: every boundary between two chunks is either a
\* sentence boundary, and then the chunk before it plus one space plus the
\* next sentence is longer than limit, or lies inside a sentence that is
\* itself longer than limit; for "Hi there. How are you? I am fine!" and
\* limit 10 the chunks are "Hi there.", "How are yo", "u?", "I am fine!": all
\* within 10 characters and only the sentence "How are you?" hard-sliced.
C18_GreedyPacking ==
    /\ (called /\ Len(Strip(text)) > limit) =>
          LET S == ReSplit(Strip(text))
          IN  \A i \in 1..(Len(chunks) - 1) :
                  LET c == CumNonSpace(chunks, i)
                  IN  \/ \E j \in 1..(Len(S) - 1) :
                            /\ c = CumNonSpace(S, j)
                            /\ Len(chunks[i]) + 1 + Len(S[j + 1]) > limit
                      \/ \E j \in 1..Len(S) :
                            /\ CumNonSpace(S, j - 1) < c
                            /\ c < CumNonSpace(S, j)
                            /\ Len(S[j]) > limit
    /\ ExampleChunks =
          << <<"H", "i", " ", "t", "h", "e", "r", "e", ".">>,
             <<"H", "o", "w", " ", "a", "r", "e", " ", "y", "o">>,
             <<"u", "?">>,
             <<"I", " ", "a", "m", " ", "f", "i", "n", "e", "!">> >>

\* C18 witness: three sentences, the first two packed into one chunk with
\* one space between them, the third, which no longer fits, in a chunk of
\* its own.
C18_Witness ==
    /\ called
    /\ Len(Strip(text)) > limit
    /\ Len(ReSplit(Strip(text))) = 3
    /\ Len(chunks) = 2
    /\ chunks[1] = ReSplit(Strip(text))[1] \o <<" ">> \o ReSplit(Strip(text))[2]
    /\ chunks[2] = ReSplit(Strip(text))[3]

=============================================================================
